---- MODULE Spec2Model ----
(***************************************************************************)
(* Control plane (sinks, agents) and OTel collector config generation of   *)
(* backend/server.py.                                                      *)
(*                                                                         *)
(* Python values (the Dict[str, Any] of Sink.config and the document that  *)
(* _build_collector_config returns) are tagged one-field records:          *)
(*   None -> [none |-> TRUE]     bool -> [bool |-> b]   int -> [int |-> n] *)
(*   str  -> [str |-> s]         list -> [list |-> <<v1, ...>>]            *)
(*   dict -> [map |-> << [k |-> key, v |-> value], ... >>]                 *)
(* A dict is the sequence of its items in insertion order, as Python keeps *)
(* it.                                                                     *)
(***************************************************************************)
EXTENDS Integers, Sequences, FiniteSets, TLC

VARIABLES sinks, agents, next_sink_id, last

vars == <<sinks, agents, next_sink_id, last>>

\* ------------------------------------------------------------------ bounds
MaxSinks == 2
MaxAgents == 1
MaxSinkIds == 2
MaxSinkList == 3
MaxDepth == 2

\* --------------------------------------------------------- program constants
SUPPORTED_SINK_TYPES == {"prometheus", "kafka", "otlp", "splunk_hec", "elasticsearch"}
SUPPORTED_SIGNALS == {"metrics", "logs", "traces"}
SUPPORTED_AGENT_MODES == {"agent", "agentless"}

\* ------------------------------------------------------------ Python values
PyNone == [none |-> TRUE]
PyBool(b) == [bool |-> b]
PyInt(n) == [int |-> n]
PyStr(s) == [str |-> s]
PyList(xs) == [list |-> xs]
PyDict(items) == [map |-> items]
Entry(key, val) == [k |-> key, v |-> val]

IsNone(x) == "none" \in DOMAIN x
IsBool(x) == "bool" \in DOMAIN x
IsInt(x) == "int" \in DOMAIN x
IsStr(x) == "str" \in DOMAIN x
IsList(x) == "list" \in DOMAIN x
IsMap(x) == "map" \in DOMAIN x

\* Python truth value testing, as used by `if x:` and `x or y`.
Truthy(x) ==
    CASE IsNone(x) -> FALSE
      [] IsBool(x) -> x.bool
      [] IsInt(x) -> x.int # 0
      [] IsStr(x) -> x.str # ""
      [] IsList(x) -> x.list # <<>>
      [] IsMap(x) -> x.map # <<>>

\* x or y
Or(x, y) == IF Truthy(x) THEN x ELSE y

\* key in d
MapHas(d, key) == \E i \in 1..Len(d.map) : d.map[i].k = key

MapKeys(d) == [i \in 1..Len(d.map) |-> d.map[i].k]

\* d.get(key, default)
MapGet(d, key, default) ==
    IF MapHas(d, key)
    THEN d.map[CHOOSE i \in 1..Len(d.map) : d.map[i].k = key].v
    ELSE default

\* d[key] = val, where every dict so far keeps the first assignment
MapSetKeepFirst(d, key, val) ==
    IF MapHas(d, key) THEN d ELSE PyDict(Append(d.map, Entry(key, val)))

\* d[key] = val: an existing key keeps its position and takes the new value
MapSet(d, key, val) ==
    IF MapHas(d, key)
    THEN PyDict([i \in 1..Len(d.map) |->
                 IF d.map[i].k = key THEN Entry(key, val) ELSE d.map[i]])
    ELSE PyDict(Append(d.map, Entry(key, val)))

StrList(ss) == PyList([i \in 1..Len(ss) |-> PyStr(ss[i])])

\* f"0.0.0.0:{port}" of an int
Endpoint(port) == PyStr("0.0.0.0:" \o ToString(port.int))

\* ------------------------------------------------- _build_collector_config
OtlpReceiver ==
    PyDict(<<Entry("protocols", PyDict(<<
        Entry("grpc", PyDict(<<Entry("endpoint", PyStr("0.0.0.0:4317"))>>)),
        Entry("http", PyDict(<<Entry("endpoint", PyStr("0.0.0.0:4318"))>>))>>))>>)

PrometheusReceiver(agent) ==
    PyDict(<<Entry("config", PyDict(<<Entry("scrape_configs", PyList(<<
        PyDict(<<Entry("job_name", PyStr("aether-scrape")),
                 Entry("metrics_path", PyStr("/metrics")),
                 Entry("static_configs", PyList(<<
                     PyDict(<<Entry("targets", StrList(agent.scrape_targets))>>)>>))>>)>>))>>))>>)

\* receivers with a prometheus receiver whatever the scrape targets are
ReceiversAlwaysScrape(agent) ==
    MapSet(PyDict(<<Entry("otlp", OtlpReceiver)>>), "prometheus", PrometheusReceiver(agent))

Receivers(agent) ==
    IF agent.scrape_targets # <<>>
    THEN MapSet(PyDict(<<Entry("otlp", OtlpReceiver)>>), "prometheus", PrometheusReceiver(agent))
    ELSE PyDict(<<Entry("otlp", OtlpReceiver)>>)

Processors ==
    PyDict(<<
        Entry("memory_limiter", PyDict(<<Entry("limit_mib", PyInt(256)),
                                         Entry("spike_limit_mib", PyInt(64)),
                                         Entry("check_interval", PyStr("5s"))>>)),
        Entry("batch", PyDict(<<Entry("timeout", PyStr("1s")),
                                Entry("send_batch_size", PyInt(512)),
                                Entry("send_batch_max_size", PyInt(1024))>>))>>)

PrometheusExporter(s, prom_exporter_port) ==
    PyDict(<<Entry("endpoint", Endpoint(Or(prom_exporter_port, PyInt(8889)))),
             Entry("namespace", PyStr("aether"))>>)

OtlpExporter(s) ==
    LET cfg == PyDict(<<Entry("endpoint", MapGet(s.config, "endpoint", PyStr("localhost:4317")))>>)
    IN  IF Truthy(MapGet(s.config, "insecure", PyBool(TRUE)))
        THEN MapSet(cfg, "tls", PyDict(<<Entry("insecure", PyBool(TRUE))>>))
        ELSE cfg

KafkaExporter(s) ==
    PyDict(<<Entry("brokers", MapGet(s.config, "brokers", PyList(<<PyStr("localhost:9092")>>))),
             Entry("topic", MapGet(s.config, "topic", PyStr("otlp_data")))>>)

SplunkHecExporter(s) ==
    PyDict(<<Entry("token", MapGet(s.config, "token", PyStr("CHANGE_ME"))),
             Entry("endpoint", MapGet(s.config, "endpoint",
                                      PyStr("https://splunk:8088/services/collector"))),
             Entry("insecure_skip_verify", PyBool(TRUE))>>)

ElasticsearchExporter(s) ==
    PyDict(<<Entry("endpoints", MapGet(s.config, "endpoints",
                                       PyList(<<PyStr("http://elasticsearch:9200")>>))),
             Entry("index", MapGet(s.config, "index", PyStr("app-logs-%{+yyyy.MM.dd}")))>>)

\* the exporter fragment of one sink of a supported type
ExporterFragment(s, prom_exporter_port) ==
    CASE s.type = "prometheus" -> PrometheusExporter(s, prom_exporter_port)
      [] s.type = "otlp" -> OtlpExporter(s)
      [] s.type = "kafka" -> KafkaExporter(s)
      [] s.type = "splunk_hec" -> SplunkHecExporter(s)
      [] s.type = "elasticsearch" -> ElasticsearchExporter(s)

\* one iteration of `for s in sinks`: acc is (exporters, enabled_exporters)
SinkStep(acc, s, prom_exporter_port) ==
    IF s.type \in SUPPORTED_SINK_TYPES
    THEN [exporters |-> MapSet(acc.exporters, s.type, ExporterFragment(s, prom_exporter_port)),
          enabled_exporters |-> Append(acc.enabled_exporters, s.type)]
    ELSE acc

RECURSIVE SinkLoop(_, _, _)
SinkLoop(acc, sink_list, prom_exporter_port) ==
    IF sink_list = <<>>
    THEN acc
    ELSE SinkLoop(SinkStep(acc, Head(sink_list), prom_exporter_port),
                  Tail(sink_list), prom_exporter_port)

Contains(seq, x) == \E i \in 1..Len(seq) : seq[i] = x

RecvListMetrics(receivers) ==
    <<"otlp">> \o (IF MapHas(receivers, "prometheus") THEN <<"prometheus">> ELSE <<>>)

Pipeline(recv, enabled_exporters, fallback) ==
    PyDict(<<Entry("receivers", StrList(recv)),
             Entry("processors", StrList(<<"memory_limiter", "batch">>)),
             Entry("exporters", StrList(IF enabled_exporters # <<>>
                                        THEN enabled_exporters ELSE <<fallback>>))>>)

Pipelines(signals, receivers, enabled_exporters) ==
    LET p0 == PyDict(<<>>)
        p1 == IF Contains(signals, "metrics")
              THEN MapSet(p0, "metrics",
                          Pipeline(RecvListMetrics(receivers), enabled_exporters, "prometheus"))
              ELSE p0
        p2 == IF Contains(signals, "logs")
              THEN MapSet(p1, "logs", Pipeline(<<"otlp">>, enabled_exporters, "otlp"))
              ELSE p1
        p3 == IF Contains(signals, "traces")
              THEN MapSet(p2, "traces", Pipeline(<<"otlp">>, enabled_exporters, "otlp"))
              ELSE p2
    IN  p3

\* the exporters map as the loop left it, with no fallback
TopExportersNoFallback(exporters, prom_exporter_port) == exporters

\* exporters or {"prometheus": {...}}
TopExporters(exporters, prom_exporter_port) ==
    Or(exporters,
       PyDict(<<Entry("prometheus",
           PyDict(<<Entry("endpoint", Endpoint(Or(prom_exporter_port, PyInt(8889))))>>))>>))

build_collector_config(agent, sink_list, signals, prom_exporter_port) ==
    LET receivers == Receivers(agent)
        acc == SinkLoop([exporters |-> PyDict(<<>>), enabled_exporters |-> <<>>],
                        sink_list, prom_exporter_port)
        pipelines == Pipelines(signals, receivers, acc.enabled_exporters)
    IN  PyDict(<<Entry("receivers", receivers),
                 Entry("processors", Processors),
                 Entry("exporters", TopExporters(acc.exporters, prom_exporter_port)),
                 Entry("service", PyDict(<<Entry("pipelines", pipelines)>>))>>)

\* ------------------------------------------------------------ _yaml_dump_like
Spaces(indent) == IF indent = 0 THEN "" ELSE IF indent = 1 THEN "  "
                  ELSE IF indent = 2 THEN "    " ELSE IF indent = 3 THEN "      "
                  ELSE IF indent = 4 THEN "        " ELSE IF indent = 5 THEN "          "
                  ELSE IF indent = 6 THEN "            " ELSE "              "

\* f"{v}" of a scalar that is not a str
Literal(x) ==
    CASE IsInt(x) -> ToString(x.int)
      [] IsBool(x) -> IF x.bool THEN "True" ELSE "False"
      [] IsNone(x) -> "None"
      [] IsStr(x) -> x.str

\* "\n".join(lines)
RECURSIVE JoinLines(_)
JoinLines(lines) ==
    IF lines = <<>> THEN ""
    ELSE IF Len(lines) = 1 THEN lines[1]
    ELSE lines[1] \o "\n" \o JoinLines(Tail(lines))

RECURSIVE yaml_dump_like(_, _)
RECURSIVE DictLines(_, _)
RECURSIVE ListLines(_, _)

DictLines(items, indent) ==
    IF items = <<>> THEN <<>>
    ELSE LET key == Head(items).k
             val == Head(items).v
             sp == Spaces(indent)
         IN  (IF IsMap(val) \/ IsList(val)
              THEN <<sp \o key \o ":", yaml_dump_like(val, indent + 1)>>
              ELSE IF IsStr(val)
                   THEN <<sp \o key \o ": \"" \o val.str \o "\"">>
                   ELSE <<sp \o key \o ": " \o Literal(val)>>)
             \o DictLines(Tail(items), indent)

ListLines(elems, indent) ==
    IF elems = <<>> THEN <<>>
    ELSE LET item == Head(elems)
             sp == Spaces(indent)
         IN  (IF IsMap(item) \/ IsList(item)
              THEN <<sp \o "-", yaml_dump_like(item, indent + 1)>>
              ELSE IF IsStr(item)
                   THEN <<sp \o "- \"" \o item.str \o "\"">>
                   ELSE <<sp \o "- " \o Literal(item)>>)
             \o ListLines(Tail(elems), indent)

yaml_dump_like(d, indent) ==
    IF IsMap(d) THEN JoinLines(DictLines(d.map, indent))
    ELSE IF IsList(d) THEN JoinLines(ListLines(d.list, indent))
    ELSE Spaces(indent) \o Literal(d)

\* ------------------------------------------------------------------- stores
\* db.<collection>.find_one({"id": id}) that ignores the filter
FindOneAny(coll, id) == IF coll # <<>> THEN coll[1] ELSE PyNone

\* db.<collection>.find_one({"id": id})
FindOne(coll, id) ==
    IF \E i \in 1..Len(coll) : coll[i].id = id
    THEN coll[CHOOSE i \in 1..Len(coll) :
                 coll[i].id = id /\ \A j \in 1..(i - 1) : coll[j].id # id]
    ELSE PyNone

\* a lookup of the listed ids by position in the collection
FindInByPosition(coll, ids) ==
    LET idx == SelectSeq(ids, LAMBDA i : i \in 1..Len(coll))
    IN  [k \in 1..Len(idx) |-> coll[idx[k]]]

\* db.<collection>.find({"id": {"$in": ids}}), in the collection's natural order
FindIn(coll, ids) == SelectSeq(coll, LAMBDA s : Contains(ids, s.id))

Range(seq) == {seq[i] : i \in 1..Len(seq)}

\* a validation that finds no sink id missing
MissingNone(sink_ids, coll) == {}

\* set(payload.sink_ids) - found_ids
Missing(sink_ids, coll) == Range(sink_ids) \ {s.id : s \in Range(FindIn(coll, sink_ids))}

SinkTypeSupported(type) == type \in SUPPORTED_SINK_TYPES

\* the requested signals unfiltered
ValidSignalsUnfiltered(requested) == requested

\* [s for s in body.signals if s in SUPPORTED_SIGNALS], ["metrics"] if empty
ValidSignals(requested) ==
    LET signals == SelectSeq(requested, LAMBDA s : s \in SUPPORTED_SIGNALS)
    IN  IF signals = <<>> THEN <<"metrics">> ELSE signals

\* ------------------------------------------------------------------- inputs
\* POST /sinks payloads of every supported type, with and without settings
SinkPayloads ==
    { [type |-> "prometheus", config |-> PyDict(<<>>)],
      [type |-> "prometheus", config |-> PyDict(<<Entry("port", PyInt(9100))>>)],
      [type |-> "otlp", config |-> PyDict(<<>>)],
      [type |-> "otlp", config |-> PyDict(<<Entry("endpoint", PyStr("collector-a:4317")),
                                            Entry("insecure", PyBool(TRUE))>>)],
      [type |-> "otlp", config |-> PyDict(<<Entry("endpoint", PyStr("collector-b:4317")),
                                            Entry("insecure", PyBool(FALSE))>>)],
      [type |-> "otlp", config |-> PyDict(<<Entry("insecure", PyStr("false"))>>)],
      [type |-> "kafka", config |-> PyDict(<<Entry("topic", PyStr("telemetry"))>>)],
      [type |-> "splunk_hec", config |-> PyDict(<<>>)],
      [type |-> "elasticsearch", config |-> PyDict(<<>>)] }

\* the payloads the create_sink handler is driven with
SinkRequests ==
    { [type |-> "otlp", config |-> PyDict(<<Entry("endpoint", PyStr("collector-a:4317"))>>)],
      [type |-> "prometheus", config |-> PyDict(<<>>)],
      [type |-> "bogus", config |-> PyDict(<<>>)] }

SeqsUpTo(S, n) == UNION {[1..m -> S] : m \in 0..n}

\* the payloads the create_agent handler is driven with; sink id MaxSinks + 1
\* is never issued
AgentRequests ==
    [mode : {"agent"}, sink_ids : SeqsUpTo(1..(MaxSinks + 1), MaxSinkIds),
     scrape_targets : {<<>>}]
    \cup [mode : {"agentless", "bogus"}, sink_ids : {<<>>},
          scrape_targets : {<<"h1:9100">>}]

SignalLists ==
    { <<>>, <<"metrics">>, <<"logs">>, <<"traces">>, <<"bogus">>,
      <<"metrics", "bogus">>, <<"bogus", "logs">>, <<"logs", "logs">>,
      <<"traces", "metrics">>, <<"metrics", "logs", "traces">> }

PortOverrides == {PyNone, PyInt(9464)}

\* ConfigRequest bodies
ConfigRequests == [signals : SignalLists, prometheus_exporter_port : PortOverrides]

\* the ConfigRequest of an empty body, and one that sets both fields
DefaultConfigRequests ==
    { [signals |-> <<"metrics">>, prometheus_exporter_port |-> PyNone],
      [signals |-> <<"bogus", "logs">>, prometheus_exporter_port |-> PyInt(9464)] }

AgentIds == 1..(MaxAgents + 1)

\* ------------------------------------------------------------------ handlers
Init ==
    /\ sinks = <<>>
    /\ agents = <<>>
    /\ next_sink_id = 1
    /\ last = [op |-> "none"]

create_sink(payload, db_ok) ==
    IF ~SinkTypeSupported(payload.type)
    THEN /\ last' = [op |-> "create_sink", status |-> 400, payload |-> payload]
         /\ UNCHANGED <<sinks, agents, next_sink_id>>
    ELSE IF db_ok
    THEN /\ next_sink_id <= MaxSinks
         /\ sinks' = Append(sinks, [id |-> next_sink_id, type |-> payload.type,
                                    config |-> payload.config])
         /\ next_sink_id' = next_sink_id + 1
         /\ last' = [op |-> "create_sink", status |-> 200, payload |-> payload]
         /\ UNCHANGED agents
    ELSE /\ last' = [op |-> "create_sink", status |-> 500, payload |-> payload]
         /\ UNCHANGED <<sinks, agents, next_sink_id>>

create_agent(payload, db_ok) ==
    IF payload.mode \notin SUPPORTED_AGENT_MODES
    THEN /\ last' = [op |-> "create_agent", status |-> 400, payload |-> payload]
         /\ UNCHANGED <<sinks, agents, next_sink_id>>
    ELSE IF payload.sink_ids # <<>> /\ Missing(payload.sink_ids, sinks) # {}
    THEN /\ last' = [op |-> "create_agent", status |-> 400, payload |-> payload]
         /\ UNCHANGED <<sinks, agents, next_sink_id>>
    ELSE IF db_ok
    THEN /\ Len(agents) < MaxAgents
         /\ agents' = Append(agents, [id |-> Len(agents) + 1, mode |-> payload.mode,
                                      sink_ids |-> payload.sink_ids,
                                      scrape_targets |-> payload.scrape_targets])
         /\ last' = [op |-> "create_agent", status |-> 200, payload |-> payload]
         /\ UNCHANGED <<sinks, next_sink_id>>
    ELSE /\ last' = [op |-> "create_agent", status |-> 500, payload |-> payload]
         /\ UNCHANGED <<sinks, agents, next_sink_id>>

generate_config(agent_id, body) ==
    LET a_doc == FindOne(agents, agent_id)
    IN  IF IsNone(a_doc)
        THEN /\ last' = [op |-> "generate_config", status |-> 404,
                         agent_id |-> agent_id, body |-> body]
             /\ UNCHANGED <<sinks, agents, next_sink_id>>
        ELSE LET sink_list == IF a_doc.sink_ids # <<>>
                              THEN FindIn(sinks, a_doc.sink_ids) ELSE <<>>
                 signals == ValidSignals(body.signals)
                 cfg == build_collector_config(a_doc, sink_list, signals,
                                               body.prometheus_exporter_port)
             IN  /\ last' = [op |-> "generate_config", status |-> 200,
                             agent_id |-> agent_id, body |-> body, agent |-> a_doc,
                             sink_list |-> sink_list, signals |-> signals, cfg |-> cfg,
                             yaml_text |-> yaml_dump_like(cfg, 0)]
                 /\ UNCHANGED <<sinks, agents, next_sink_id>>

\* a sink document removed from the sink collection by another client of the
\* database, after agents that reference it were created
drop_sink(i) ==
    /\ i \in 1..Len(sinks)
    /\ sinks' = SubSeq(sinks, 1, i - 1) \o SubSeq(sinks, i + 1, Len(sinks))
    /\ last' = [op |-> "drop_sink"]
    /\ UNCHANGED <<agents, next_sink_id>>

CreateSink == \E payload \in SinkRequests, db_ok \in BOOLEAN : create_sink(payload, db_ok)
CreateAgent == \E payload \in AgentRequests, db_ok \in BOOLEAN : create_agent(payload, db_ok)
GenerateDefault ==
    \E agent_id \in AgentIds, body \in DefaultConfigRequests : generate_config(agent_id, body)
DropSink == \E i \in 1..MaxSinks : drop_sink(i)

\* the control plane from empty stores
Next == CreateSink \/ CreateAgent \/ GenerateDefault

Spec == Init /\ [][Next]_vars

\* the control plane with a sink collection that other clients delete from
NextDrift == CreateSink \/ CreateAgent \/ GenerateDefault \/ DropSink

SpecDrift == Init /\ [][NextDrift]_vars

\* ------------------------------------------- config generation on any stores
\* the sink collections that create_sink calls with SinkPayloads leave
SinkStores ==
    UNION { { [i \in 1..n |-> [id |-> i, type |-> ps[i].type, config |-> ps[i].config]] :
              ps \in [1..n -> SinkPayloads] } : n \in 0..MaxSinkList }

\* one agent that references every stored sink
InitGen ==
    /\ sinks \in SinkStores
    /\ \E targets \in {<<>>, <<"h1:9100">>} :
          agents = <<[id |-> 1, mode |-> "agent",
                      sink_ids |-> [i \in 1..Len(sinks) |-> i],
                      scrape_targets |-> targets]>>
    /\ next_sink_id = Len(sinks) + 1
    /\ last = [op |-> "none"]

\* one request against each drawn pair of stores
GenerateConfig ==
    /\ last.op = "none"
    /\ \E agent_id \in AgentIds, body \in ConfigRequests : generate_config(agent_id, body)

SpecGen == InitGen /\ [][GenerateConfig]_vars

\* ------------------------------------------------------------------- claims
Generated == last.op = "generate_config" /\ last.status = 200

HasType(sink_list, t) == \E i \in 1..Len(sink_list) : sink_list[i].type = t

LastOfType(sink_list, t) ==
    sink_list[CHOOSE i \in 1..Len(sink_list) :
                 /\ sink_list[i].type = t
                 /\ \A j \in (i + 1)..Len(sink_list) : sink_list[j].type # t]

Count(seq, x) == Cardinality({i \in 1..Len(seq) : seq[i] = x})

NoDuplicates(seq) == \A i, j \in 1..Len(seq) : seq[i] = seq[j] => i = j

Exporters(cfg) == MapGet(cfg, "exporters", PyNone)
ReceiversOf(cfg) == MapGet(cfg, "receivers", PyNone)
PipelinesOf(cfg) == MapGet(MapGet(cfg, "service", PyNone), "pipelines", PyNone)
PipelineField(cfg, signal, field) ==
    MapGet(MapGet(PipelinesOf(cfg), signal, PyNone), field, PyNone)

PortText(port) == IF IsNone(port) THEN "8889" ELSE ToString(port.int)

\* C1: for a sink list with a prometheus sink, the prometheus exporter endpoint
\* is "0.0.0.0:<port>", the port being the request's override if one is given,
\* otherwise the port in the (last) prometheus sink's config, otherwise 8889.
C1_PrometheusPortFromSinkConfig ==
    (Generated /\ HasType(last.sink_list, "prometheus")) =>
        LET s == LastOfType(last.sink_list, "prometheus")
            override == last.body.prometheus_exporter_port
            port == IF ~IsNone(override) THEN override
                    ELSE MapGet(s.config, "port", PyInt(8889))
        IN  MapGet(MapGet(Exporters(last.cfg), "prometheus", PyNone), "endpoint", PyNone)
                = PyStr("0.0.0.0:" \o ToString(port.int))

\* C2: when several sinks share a type, the exporters map holds exactly one
\* entry for that type, and it is the fragment of the last such sink in
\* iteration order; for otlp its endpoint is the later sink's endpoint.
C2_LastSinkOfTypeWins ==
    Generated =>
        \A t \in {last.sink_list[i].type : i \in 1..Len(last.sink_list)} :
            LET s == LastOfType(last.sink_list, t)
                frag == MapGet(Exporters(last.cfg), t, PyNone)
            IN  /\ Count(MapKeys(Exporters(last.cfg)), t) = 1
                /\ frag = ExporterFragment(s, last.body.prometheus_exporter_port)
                /\ t = "otlp" =>
                       MapGet(frag, "endpoint", PyNone)
                           = MapGet(s.config, "endpoint", PyStr("localhost:4317"))

C2_Witness ==
    /\ Generated
    /\ \E i, j \in 1..Len(last.sink_list) :
          /\ i < j
          /\ last.sink_list[i].type = "otlp"
          /\ last.sink_list[j].type = "otlp"
          /\ MapGet(last.sink_list[i].config, "endpoint", PyNone) = PyStr("collector-a:4317")
          /\ MapGet(last.sink_list[j].config, "endpoint", PyNone) = PyStr("collector-b:4317")
          /\ \A k \in (j + 1)..Len(last.sink_list) : last.sink_list[k].type # "otlp"
    /\ MapGet(MapGet(Exporters(last.cfg), "otlp", PyNone), "endpoint", PyNone)
           = PyStr("collector-b:4317")

\* C3: each exporter key appears at most once in every pipeline's exporters
\* list, also when several sinks share a type.
C3_PipelineExportersDistinct ==
    Generated =>
        \A signal \in SUPPORTED_SIGNALS :
            MapHas(PipelinesOf(last.cfg), signal) =>
                NoDuplicates(PipelineField(last.cfg, signal, "exporters").list)

\* C4: with no sinks resolved, the exporters map is exactly one prometheus entry
\* whose endpoint is 0.0.0.0:<port override, else 8889>, and a requested
\* metrics pipeline exports to ["prometheus"].
C4_FallbackExporter ==
    (Generated /\ last.sink_list = <<>>) =>
        /\ MapKeys(Exporters(last.cfg)) = <<"prometheus">>
        /\ MapGet(MapGet(Exporters(last.cfg), "prometheus", PyNone), "endpoint", PyNone)
               = PyStr("0.0.0.0:" \o PortText(last.body.prometheus_exporter_port))
        /\ Contains(last.signals, "metrics") =>
               PipelineField(last.cfg, "metrics", "exporters") = StrList(<<"prometheus">>)

C4_Witness ==
    /\ Generated
    /\ last.sink_list = <<>>
    /\ last.body.signals = <<"traces", "metrics">>
    /\ last.body.prometheus_exporter_port = PyInt(9464)
    /\ MapGet(MapGet(Exporters(last.cfg), "prometheus", PyNone), "endpoint", PyNone)
           = PyStr("0.0.0.0:9464")

\* C5: service.pipelines has exactly one entry per distinct requested name that
\* is metrics, logs or traces and none for any other name; when no requested
\* name is one of these the document is the one a request of ["metrics"] gets.
C5_SignalFiltering ==
    Generated =>
        LET requested == Range(last.body.signals) \cap SUPPORTED_SIGNALS
            keys == MapKeys(PipelinesOf(last.cfg))
            metrics_body == [last.body EXCEPT !.signals = <<"metrics">>]
        IN  /\ NoDuplicates(keys)
            /\ requested # {} => Range(keys) = requested
            /\ requested = {} =>
                  /\ Range(keys) = {"metrics"}
                  /\ last.cfg = build_collector_config(last.agent, last.sink_list,
                                    <<"metrics">>, last.body.prometheus_exporter_port)

C5_Witness ==
    /\ Generated
    /\ last.body.signals = <<"bogus">>
    /\ MapKeys(PipelinesOf(last.cfg)) = <<"metrics">>

\* C6: receivers always holds otlp, and holds prometheus iff the agent has
\* scrape targets; the metrics pipeline receives from ["otlp","prometheus"]
\* exactly when the prometheus receiver exists and from ["otlp"] otherwise;
\* logs and traces always receive from ["otlp"].
C6_Receivers ==
    Generated =>
        LET scrape == last.agent.scrape_targets # <<>>
        IN  /\ MapHas(ReceiversOf(last.cfg), "otlp")
            /\ MapHas(ReceiversOf(last.cfg), "prometheus") <=> scrape
            /\ Range(MapKeys(ReceiversOf(last.cfg))) \subseteq {"otlp", "prometheus"}
            /\ MapHas(PipelinesOf(last.cfg), "metrics") =>
                   PipelineField(last.cfg, "metrics", "receivers")
                       = IF scrape THEN StrList(<<"otlp", "prometheus">>)
                                   ELSE StrList(<<"otlp">>)
            /\ \A signal \in {"logs", "traces"} :
                   MapHas(PipelinesOf(last.cfg), signal) =>
                       PipelineField(last.cfg, signal, "receivers") = StrList(<<"otlp">>)

C6_Witness ==
    /\ Generated
    /\ last.agent.scrape_targets = <<"h1:9100">>
    /\ last.body.signals = <<"metrics", "logs", "traces">>
    /\ PipelineField(last.cfg, "metrics", "receivers") = StrList(<<"otlp", "prometheus">>)
    /\ PipelineField(last.cfg, "logs", "receivers") = StrList(<<"otlp">>)

StoredAgentIds == {agents[i].id : i \in 1..Len(agents)}
StoredSinkIds == {sinks[i].id : i \in 1..Len(sinks)}

\* C7: generate_config for an agent id that is not stored answers 404 with no
\* document, whatever the body, and for a stored id answers with a document;
\* it never changes the agent or the sink store.
C7_UnknownAgentNotFound ==
    /\ [](last.op = "generate_config" =>
            IF last.agent_id \in StoredAgentIds
            THEN /\ last.status = 200
                 /\ "yaml_text" \in DOMAIN last
                 /\ last.agent.id = last.agent_id
            ELSE /\ last.status = 404
                 /\ "yaml_text" \notin DOMAIN last
                 /\ "cfg" \notin DOMAIN last)
    /\ [][last'.op = "generate_config" => UNCHANGED <<sinks, agents, next_sink_id>>]_vars

C7_Witness ==
    /\ last.op = "generate_config"
    /\ last.status = 404
    /\ agents # <<>>
    /\ last.agent_id \notin StoredAgentIds

\* C8: with sink ids in a stored agent's sink_ids that no longer resolve,
\* generate_config still answers 200, with the document of an agent whose
\* sink_ids are only the resolving ids; with none resolving that is the
\* zero-sink fallback document.
C8_DanglingSinkIdsDropped ==
    Generated =>
        LET resolving == SelectSeq(last.agent.sink_ids, LAMBDA id : id \in StoredSinkIds)
            pruned == [last.agent EXCEPT !.sink_ids = resolving]
            pruned_sinks == SelectSeq(sinks, LAMBDA s : s.id \in Range(resolving))
            expected == build_collector_config(pruned, pruned_sinks, last.signals,
                                               last.body.prometheus_exporter_port)
        IN  /\ last.cfg = expected
            /\ last.yaml_text = yaml_dump_like(expected, 0)
            /\ resolving = <<>> =>
                  /\ last.cfg = build_collector_config(last.agent, <<>>, last.signals,
                                    last.body.prometheus_exporter_port)
                  /\ MapKeys(Exporters(last.cfg)) = <<"prometheus">>

C8_Witness ==
    /\ Generated
    /\ \E id \in Range(last.agent.sink_ids) : id \notin StoredSinkIds
    /\ \E id \in Range(last.agent.sink_ids) : id \in StoredSinkIds
    /\ Len(last.sink_list) = 1

\* C9: from empty stores, create_sink and create_agent keep every stored sink's
\* type supported, every stored agent's mode supported and every stored agent's
\* sink_ids among the stored sinks' ids; a call that breaks one of these is
\* answered 400 and stores nothing.
C9_StoresValidated ==
    /\ [](/\ \A i \in 1..Len(sinks) : sinks[i].type \in SUPPORTED_SINK_TYPES
          /\ \A i \in 1..Len(agents) :
                /\ agents[i].mode \in SUPPORTED_AGENT_MODES
                /\ Range(agents[i].sink_ids) \subseteq StoredSinkIds
          /\ (last.op = "create_sink" /\ last.payload.type \notin SUPPORTED_SINK_TYPES)
                => last.status = 400
          /\ (last.op = "create_agent" /\
                (\/ last.payload.mode \notin SUPPORTED_AGENT_MODES
                 \/ ~(Range(last.payload.sink_ids) \subseteq StoredSinkIds)))
                => last.status = 400)
    /\ [][(last'.op \in {"create_sink", "create_agent"} /\ last'.status = 400)
           => UNCHANGED <<sinks, agents>>]_vars

C9_Witness ==
    /\ last.op = "create_agent"
    /\ last.status = 400
    /\ last.payload.mode = "agent"
    /\ sinks # <<>>
    /\ \E id \in Range(last.payload.sink_ids) : id \in StoredSinkIds
    /\ \E id \in Range(last.payload.sink_ids) : id \notin StoredSinkIds

\* C10: the otlp exporter fragment has endpoint config.endpoint (or
\* "localhost:4317" when absent) and tls.insecure = true iff config.insecure is
\* true or absent; with any other value of config.insecure it has no tls entry.
C10_OtlpInsecureOnlyWhenTrueOrAbsent ==
    (Generated /\ HasType(last.sink_list, "otlp")) =>
        LET s == LastOfType(last.sink_list, "otlp")
            frag == MapGet(Exporters(last.cfg), "otlp", PyNone)
            insecure == \/ ~MapHas(s.config, "insecure")
                        \/ MapGet(s.config, "insecure", PyNone) = PyBool(TRUE)
        IN  /\ MapGet(frag, "endpoint", PyNone)
                   = MapGet(s.config, "endpoint", PyStr("localhost:4317"))
            /\ insecure => MapGet(frag, "tls", PyNone)
                               = PyDict(<<Entry("insecure", PyBool(TRUE))>>)
            /\ ~insecure => ~MapHas(frag, "tls")

\* ------------------------------------------------- rendering of any document
DocScalars == {PyStr("x"), PyInt(7)}

\* the documents nested at most n deep: scalars, and lists and dicts (keys a, b
\* in insertion order) of at most two shallower documents, one of them a
\* scalar; empty lists and dicts included
RECURSIVE Docs(_)
Docs(n) ==
    IF n = 0 THEN DocScalars
    ELSE LET sub == Docs(n - 1)
             pairs == (sub \X DocScalars) \cup (DocScalars \X sub)
         IN  DocScalars
             \cup {PyList(<<>>), PyDict(<<>>)}
             \cup {PyList(<<v>>) : v \in sub}
             \cup {PyList(<<p[1], p[2]>>) : p \in pairs}
             \cup {PyDict(<<Entry("a", v)>>) : v \in sub}
             \cup {PyDict(<<Entry("a", p[1]), Entry("b", p[2])>>) : p \in pairs}

\* the document of the render scenario
RenderScenario ==
    PyDict(<<Entry("a", PyStr("x")),
             Entry("b", PyList(<<PyStr("1"), PyStr("2")>>))>>)

InitRender ==
    /\ sinks = <<>>
    /\ agents = <<>>
    /\ next_sink_id = 1
    /\ \E d \in Docs(MaxDepth) \cup {RenderScenario} : last = [op |-> "document", d |-> d]

Render ==
    /\ last.op = "document"
    /\ last' = [op |-> "render", d |-> last.d, text |-> yaml_dump_like(last.d, 0)]
    /\ UNCHANGED <<sinks, agents, next_sink_id>>

SpecRender == InitRender /\ [][Render]_vars

\* the text of a scalar after "key: " or "- ": a string double-quoted as it is,
\* an integer as its digits
ScalarText(x) == IF IsStr(x) THEN "\"" \o x.str \o "\"" ELSE ToString(x.int)

\* the lines the layout asks for: one per key and per element in insertion
\* order, two spaces per level, a composite value on the following lines one
\* level deeper
RECURSIVE LayoutLines(_, _)
LayoutLines(d, indent) ==
    LET items == IF IsMap(d) THEN d.map ELSE d.list
        lead(i) == Spaces(indent) \o (IF IsMap(d) THEN items[i].k \o ":" ELSE "-")
        child(i) == IF IsMap(d) THEN items[i].v ELSE items[i]
        lines_from[i \in 1..(Len(items) + 1)] ==
            IF i > Len(items) THEN <<>>
            ELSE (IF IsMap(child(i)) \/ IsList(child(i))
                  THEN <<lead(i)>> \o LayoutLines(child(i), indent + 1)
                  ELSE <<lead(i) \o " " \o ScalarText(child(i))>>)
                 \o lines_from[i + 1]
    IN  lines_from[1]

\* C11: for every document of bounded depth built from maps, sequences and
\* string or integer scalars, the rendered text is one line per map key and per
\* sequence element in insertion order, indented two spaces per level, a scalar
\* inline after "key: " or "- " (strings double-quoted, unescaped) and a
\* composite on the following lines one level deeper; the render scenario gives
\* the four lines a: "x" / b: / - "1" / - "2".
C11_RenderLayout ==
    (last.op = "render" /\ (IsMap(last.d) \/ IsList(last.d))) =>
        /\ last.text = JoinLines(LayoutLines(last.d, 0))
        /\ last.d = RenderScenario =>
               last.text = "a: \"x\"\nb:\n  - \"1\"\n  - \"2\""

\* C12: in every document _build_collector_config returns, each exporter key
\* listed in a pipeline's exporters is a key of the top-level exporters map,
\* also when no sinks are resolved and logs or traces are requested.
C12_PipelineExportersDefined ==
    Generated =>
        \A signal \in SUPPORTED_SIGNALS :
            MapHas(PipelinesOf(last.cfg), signal) =>
                LET listed == PipelineField(last.cfg, signal, "exporters").list
                IN  \A i \in 1..Len(listed) : MapHas(Exporters(last.cfg), listed[i].str)

====
